---- MODULE Spec2Model ----
(***************************************************************************)
(* load_tiny_imagenet (code/data_utils.py) as a state machine.            *)
(*                                                                         *)
(* The dataset directory is the record fs, fixed for a behaviour; a call   *)
(* walks the function body from the top (pc = "wnids") to its return       *)
(* (pc = "done") or to the first exception raised (pc = "error"; nothing   *)
(* in the function catches).  Spec and SpecFaults are one call; under      *)
(* SpecTwice the caller then calls once more, with the same arguments on   *)
(* the same directory.                                                     *)
(*                                                                         *)
(* An image is 1x1: three channel values for an RGB file, one value for a  *)
(* grayscale file.  Array element values are exact rationals num/den (the  *)
(* dtype is not modelled); 0/0 is the nan numpy yields for the mean of an  *)
(* empty block.  Labels are 0-based as in the code; sequences are 1-based. *)
(***************************************************************************)
EXTENDS Integers, Sequences, FiniteSets, TLC

\* ---------------------------------------------------------------- bounds
MaxClasses == 2     \* lines of wnids.txt
MaxImgs == 2        \* lines of one <wnid>_boxes.txt
MaxVal == 2         \* lines of val/val_annotations.txt
MaxTest == 2        \* entries of test/images

\* default of the parameter debug_nclass
DefaultDebugNclass == 3

None == [none |-> TRUE]

\* ------------------------------------------------------- generic helpers
Range(s) == {s[i] : i \in 1..Len(s)}

SeqsUpTo(S, n) == UNION {[1..k -> S] : k \in 0..n}

Min(S) == CHOOSE x \in S : \A y \in S : x <= y

Max(S) == CHOOSE x \in S : \A y \in S : x >= y

RECURSIVE SumTo(_, _, _)
\* sum over p in 1..n of the channel c of the stored images X[p]
SumTo(X, c, n) == IF n = 0 THEN 0 ELSE SumTo(X, c, n - 1) + X[n][c]

\* --------------------------------------------------- the dataset directory
\* class identifiers that may occur in wnids.txt, and one that never does
Wnid == {"n01", "n02"}

WnidNo(w) == IF w = "n01" THEN 1 ELSE IF w = "n02" THEN 2 ELSE 9

\* a file name as the loader holds it: nl is the line terminator kept by
\* split('\t')[0] on a line that has no tab
Name(n) == [n |-> n, nl |-> FALSE]

Path(kind, w, name) == [kind |-> kind, w |-> w, name |-> name]

WnidsTxt == Path("wnids.txt", "", Name(0))
WordsTxt == Path("words.txt", "", Name(0))
BoxesTxt(w) == Path("boxes.txt", w, Name(0))
TrainImg(w, name) == Path("train/images", w, name)
ValTxt == Path("val_annotations.txt", "", Name(0))
ValImg(name) == Path("val/images", "", name)
TestDir == Path("test/images", "", Name(0))
TestImg(name) == Path("test/images", "", name)

NoFault == [how |-> "none", at |-> Path("", "", Name(0))]

Fault(how, at) == [how |-> how, at |-> at]

\* the faults a directory with the given contents can have (at most one):
\* a file missing, an image file undecodable, words.txt with a line without
\* tab or without the line of a class, and, on the last line of a manifest,
\* no tab, (val) no third field, (val) an identifier wnids.txt does not hold
FaultsOf(wn, nimg, val, test) ==
    {NoFault}
    \cup {Fault("missing", p) : p \in {WnidsTxt, WordsTxt, ValTxt, TestDir}}
    \cup {Fault("notab", WordsTxt)}
    \cup {Fault("nokey", Path("words.txt", w, Name(0))) : w \in Range(wn)}
    \cup {Fault("missing", BoxesTxt(w)) : w \in Range(wn)}
    \cup UNION {{Fault(h, TrainImg(w, Name(j))) : h \in {"missing", "corrupt"}, j \in 1..nimg[w]}
                : w \in Range(wn)}
    \cup {Fault("notab", TrainImg(w, Name(1))) : w \in {x \in Range(wn) : nimg[x] > 0}}
    \cup {Fault(h, ValImg(Name(k))) : h \in {"missing", "corrupt"}, k \in 1..Len(val)}
    \cup {Fault(h, ValImg(Name(1))) :
            h \in (IF Len(val) > 0 THEN {"notab", "twofields", "unknown"} ELSE {})}
    \cup {Fault("corrupt", TestImg(Name(test[k]))) : k \in 1..Len(test)}

\* test/images holds the files 1..k; os.listdir yields them in the order the
\* directory keeps them, which is any order
Listings == {s \in SeqsUpTo(1..MaxTest, MaxTest) :
                /\ Range(s) = 1..Len(s)}

Exists(d, p) == ~p.name.nl /\ d.fault # Fault("missing", p)

Decodable(d, p) == d.fault # Fault("corrupt", p)

\* the pixels of the image file at a path: every second file of a
\* directory is grayscale (2-D), the others are RGB (3-D)
Content(p) ==
    LET base == (IF p.kind = "train/images" THEN 10 * WnidNo(p.w)
                 ELSE IF p.kind = "val/images" THEN 50 ELSE 70) + p.name.n
    IN IF p.name.n % 2 = 0
       THEN [ndim |-> 2, px |-> <<base>>]
       ELSE [ndim |-> 3, px |-> <<base, base + 3, base + 7>>]

\* mutant: a file that cannot be read is taken as a black image
imread_Lenient(d, p) ==
    IF Exists(d, p) /\ Decodable(d, p) THEN [ok |-> TRUE, img |-> Content(p)]
    ELSE [ok |-> TRUE, img |-> [ndim |-> 2, px |-> <<0>>]]

\* scipy.misc.imread: the decoded image, or the exception it raises
imread(d, p) ==
    IF ~Exists(d, p) THEN [ok |-> FALSE, err |-> "FileNotFoundError"]
    ELSE IF ~Decodable(d, p) THEN [ok |-> FALSE, err |-> "OSError"]
    ELSE [ok |-> TRUE, img |-> Content(p)]

\* the lines of train/<w>/<w>_boxes.txt, in file order (not sorted by name);
\* every line of a manifest ends with a line terminator
BoxesLines(d, w) ==
    [j \in 1..d.nimg[w] |->
        LET n == d.nimg[w] + 1 - j
        IN [name |-> n, tab |-> d.fault # Fault("notab", TrainImg(w, Name(n)))]]

\* the lines of val/val_annotations.txt, in file order: the tab-separated
\* fields of line i; the last field of a line carries the line terminator
ValLines(d) ==
    [i \in 1..Len(d.val) |->
        LET n == Len(d.val) + 1 - i
            at == ValImg(Name(n))
        IN [name |-> n,
            wnid |-> IF d.fault = Fault("unknown", at) THEN "n99" ELSE d.val[i],
            nfields |-> IF d.fault = Fault("notab", at) THEN 1
                        ELSE IF d.fault = Fault("twofields", at) THEN 2 ELSE 3]]

\* the synonym list words.txt gives for a class identifier
Words(w) == <<"words of", w>>

\* ------------------------------------------------------------ the loader
VARIABLES fs, args, pc, err, wnids, wnid_to_label, label_to_wnid, class_names,
          train_wnids, i, X_train, y_train, X_val, y_val, X_test,
          test_image_names, mean_image, result, reads, callNo, first

locals == <<wnids, wnid_to_label, label_to_wnid, class_names, train_wnids, i,
            X_train, y_train, X_val, y_val, X_test, test_image_names, mean_image>>

vars == <<fs, args, pc, err, locals, result, reads, callNo, first>>

\* mutant: labels counted from 1
WnidToLabel_OneBased(wn) ==
    [w \in Range(wn) |-> Max({k \in 1..Len(wn) : wn[k] = w})]

\* line 54: a later line of wnids.txt overwrites an earlier equal one
WnidToLabel(wn) ==
    [w \in Range(wn) |-> Max({k \in 1..Len(wn) : wn[k] = w}) - 1]

\* mutant: the inverse built over the labels in reverse
LabelToWnid_Reversed(w2l) ==
    LET top == Max({w2l[w] : w \in DOMAIN w2l} \cup {0})
        labels == {w2l[w] : w \in DOMAIN w2l}
    IN [l \in labels |->
          CHOOSE w \in DOMAIN w2l : w2l[w] = IF top - l \in labels THEN top - l ELSE l]

\* line 55
LabelToWnid(w2l) ==
    [l \in {w2l[w] : w \in DOMAIN w2l} |-> CHOOSE w \in DOMAIN w2l : w2l[w] = l]

\* mutant: the training block is kept when testing
Discard_Keep(x, a) == x

\* lines 141-143
Discard(x, a) == IF a.is_training THEN x ELSE None

\* mutant: debug is ignored
TrainWnids_IgnoreDebug(wn, a) == wn

\* line 70: wnids[:debug_nclass] if debug else wnids
TrainWnids(wn, a) ==
    IF a.debug THEN SubSeq(wn, 1, IF a.debug_nclass < Len(wn) THEN a.debug_nclass ELSE Len(wn))
    ELSE wn

\* mutant: the debug cut applied to the identifier list itself
ReadWnids_Truncated(d, a) == TrainWnids(d.wnids, a)

\* lines 50-51: the stripped lines of wnids.txt; the arguments play no part
ReadWnids(d, a) == d.wnids

\* lines 84-86 (and 111-113, 127-129): a 2-D image is reshaped to (64,64,1)
\* and the assignment into the (64,64,3) slot repeats it over the channels
Stored(img) ==
    [num |-> IF img.ndim = 2 THEN <<img.px[1], img.px[1], img.px[1]>> ELSE img.px,
     den |-> 1]

\* X.mean(axis=0): the sum of every channel over the count (0/0 when empty)
Mean(X) == [num |-> [c \in 1..3 |-> SumTo([p \in 1..Len(X) |-> X[p].num], c, Len(X))],
            den |-> Len(X)]

\* mutant: the mean is added
Subtract_Added(X, m) ==
    [p \in 1..Len(X) |->
        [num |-> [c \in 1..3 |-> X[p].num[c] * m.den + m.num[c] * X[p].den],
         den |-> X[p].den * m.den]]

\* X -= mean_image[None]
Subtract(X, m) ==
    [p \in 1..Len(X) |->
        [num |-> [c \in 1..3 |-> X[p].num[c] * m.den - m.num[c] * X[p].den],
         den |-> X[p].den * m.den]]

RECURSIVE Concatenate_Reversed(_)
\* mutant: the blocks joined last first
Concatenate_Reversed(blocks) ==
    IF Len(blocks) = 0 THEN <<>> ELSE Concatenate_Reversed(Tail(blocks)) \o blocks[1]

RECURSIVE Concatenate(_)
\* np.concatenate(blocks, axis=0) of a non-empty list
Concatenate(blocks) ==
    IF Len(blocks) = 0 THEN <<>> ELSE blocks[1] \o Concatenate(Tail(blocks))

Raise(e) == /\ pc' = "error"
            /\ err' = e
            /\ UNCHANGED <<locals, result>>

Fresh == /\ wnids = None /\ wnid_to_label = None /\ label_to_wnid = None
         /\ class_names = None /\ train_wnids = None /\ i = 0
         /\ X_train = None /\ y_train = None /\ X_val = None /\ y_val = None
         /\ X_test = None /\ test_image_names = None /\ mean_image = None
         /\ result = None /\ reads = {} /\ pc = "wnids" /\ err = "none"

Args ==
    {[is_training |-> t, subtract_mean |-> s, debug |-> FALSE,
      debug_nclass |-> DefaultDebugNclass] : t \in BOOLEAN, s \in BOOLEAN}
    \cup {[is_training |-> t, subtract_mean |-> s, debug |-> TRUE, debug_nclass |-> n] :
            t \in BOOLEAN, s \in BOOLEAN, n \in 0..MaxClasses}

\* fs is a directory that a call with arguments a may be given: a class directory
\* that wnids.txt does not name is empty, the split that the mode never
\* opens (val when testing, test when training) is empty, and the directory
\* has at most one fault (none at all unless faulty)
Dir(a, faulty) ==
    \E wn \in SeqsUpTo(Wnid, MaxClasses) :
       \E ni \in {g \in [Wnid -> 0..MaxImgs] : \A w \in Wnid \ Range(wn) : g[w] = 0},
          v \in (IF a.is_training THEN SeqsUpTo(Wnid, MaxVal) ELSE {<<>>}),
          t \in (IF a.is_training THEN {<<>>} ELSE Listings) :
          \E f \in (IF faulty THEN FaultsOf(wn, ni, v, t) ELSE {NoFault}) :
             fs = [wnids |-> wn, nimg |-> ni, val |-> v, test |-> t, fault |-> f]

\* a call on a directory all of whose files are there and well-formed
Init == /\ args \in Args
        /\ Dir(args, FALSE)
        /\ callNo = 1
        /\ first = None
        /\ Fresh

\* a call, subtract_mean left at its default and debug_nclass not 0, on a
\* directory that may have a fault
InitFaults == /\ args \in {a \in Args : a.subtract_mean /\ a.debug_nclass > 0}
              /\ Dir(args, TRUE)
              /\ callNo = 1
              /\ first = None
              /\ Fresh

\* lines 49-55
LoadWnids ==
    /\ pc = "wnids"
    /\ reads' = reads \cup {WnidsTxt}
    /\ IF ~Exists(fs, WnidsTxt) THEN Raise("FileNotFoundError")
       ELSE /\ wnids' = ReadWnids(fs, args)
            /\ wnid_to_label' = WnidToLabel(wnids')
            /\ label_to_wnid' = LabelToWnid(wnid_to_label')
            /\ pc' = "words"
            /\ UNCHANGED <<err, class_names, train_wnids, i, X_train, y_train, X_val,
                           y_val, X_test, test_image_names, mean_image, result>>
    /\ UNCHANGED <<fs, args, callNo, first>>

\* lines 57-70
LoadWords ==
    /\ pc = "words"
    /\ reads' = reads \cup {WordsTxt}
    /\ IF ~Exists(fs, WordsTxt) THEN Raise("FileNotFoundError")
       ELSE IF fs.fault = Fault("notab", WordsTxt) THEN Raise("ValueError")
       ELSE IF \E k \in 1..Len(wnids) : fs.fault = Fault("nokey", Path("words.txt", wnids[k], Name(0)))
            THEN Raise("KeyError")
       ELSE /\ class_names' = [k \in 1..Len(wnids) |-> Words(wnids[k])]
            /\ X_train' = <<>>
            /\ y_train' = <<>>
            /\ train_wnids' = TrainWnids(wnids, args)
            /\ i' = 0
            /\ pc' = "train"
            /\ UNCHANGED <<err, wnids, wnid_to_label, label_to_wnid, X_val, y_val, X_test,
                           test_image_names, mean_image, result>>
    /\ UNCHANGED <<fs, args, callNo, first>>

\* the images of a list of paths, decoded in order up to the first failure
FirstBad(d, paths) ==
    LET bad == {k \in 1..Len(paths) : ~imread(d, paths[k]).ok}
    IN IF bad = {} THEN 0 ELSE Min(bad)

Opened(paths, bad) ==
    {paths[k] : k \in 1..(IF bad = 0 THEN Len(paths) ELSE bad)}

\* lines 71-88: one iteration of the loop over train_wnids
TrainClass ==
    /\ pc = "train"
    /\ i < Len(train_wnids)
    /\ LET wnid == train_wnids[i + 1]
           lines == IF Exists(fs, BoxesTxt(wnid)) THEN BoxesLines(fs, wnid) ELSE <<>>
           filenames == [j \in 1..Len(lines) |->
                            [n |-> lines[j].name, nl |-> ~lines[j].tab]]
           paths == [j \in 1..Len(filenames) |-> TrainImg(wnid, filenames[j])]
           bad == FirstBad(fs, paths)
       IN IF ~Exists(fs, BoxesTxt(wnid))
          THEN /\ reads' = reads \cup {BoxesTxt(wnid)}
               /\ Raise("FileNotFoundError")
          ELSE /\ reads' = reads \cup {BoxesTxt(wnid)} \cup Opened(paths, bad)
               /\ IF bad # 0 THEN Raise(imread(fs, paths[bad]).err)
                  ELSE /\ X_train' = Append(X_train,
                                [j \in 1..Len(paths) |-> Stored(imread(fs, paths[j]).img)])
                       /\ y_train' = Append(y_train,
                                [j \in 1..Len(paths) |-> wnid_to_label[wnid]])
                       /\ i' = i + 1
                       /\ UNCHANGED <<pc, err, wnids, wnid_to_label, label_to_wnid,
                                      class_names, train_wnids, X_val, y_val, X_test,
                                      test_image_names, mean_image, result>>
    /\ UNCHANGED <<fs, args, callNo, first>>

\* lines 90-92: np.concatenate raises on an empty list of blocks
ConcatTrain ==
    /\ pc = "train"
    /\ i = Len(train_wnids)
    /\ IF Len(X_train) = 0 THEN Raise("ValueError")
       ELSE /\ X_train' = Concatenate(X_train)
            /\ y_train' = Concatenate(y_train)
            /\ pc' = "val"
            /\ UNCHANGED <<err, wnids, wnid_to_label, label_to_wnid, class_names,
                           train_wnids, i, X_val, y_val, X_test, test_image_names,
                           mean_image, result>>
    /\ UNCHANGED <<fs, args, reads, callNo, first>>

\* lines 94-113
LoadVal ==
    /\ pc = "val"
    /\ IF ~args.is_training
       THEN /\ X_val' = None
            /\ y_val' = None
            /\ pc' = "test"
            /\ UNCHANGED <<err, wnids, wnid_to_label, label_to_wnid, class_names,
                           train_wnids, i, X_train, y_train, X_test, test_image_names,
                           mean_image, result, reads>>
       ELSE IF ~Exists(fs, ValTxt)
       THEN /\ reads' = reads \cup {ValTxt}
            /\ Raise("FileNotFoundError")
       ELSE LET lines == ValLines(fs)
                \* line 102: the second field, with the line terminator
                \* when it is the last field of the line
                val_wnids == [k \in 1..Len(lines) |->
                                [wnid |-> lines[k].wnid, nl |-> lines[k].nfields = 2]]
                paths == [k \in 1..Len(lines) |-> ValImg(Name(lines[k].name))]
                bad == FirstBad(fs, paths)
            IN IF \E k \in 1..Len(lines) : lines[k].nfields < 2
               THEN /\ reads' = reads \cup {ValTxt}
                    /\ Raise("ValueError")
               ELSE IF \E k \in 1..Len(lines) :
                            val_wnids[k].nl \/ val_wnids[k].wnid \notin DOMAIN wnid_to_label
               THEN /\ reads' = reads \cup {ValTxt}
                    /\ Raise("KeyError")
               ELSE /\ reads' = reads \cup {ValTxt} \cup Opened(paths, bad)
                    /\ IF bad # 0 THEN Raise(imread(fs, paths[bad]).err)
                       ELSE /\ y_val' = [k \in 1..Len(lines) |-> wnid_to_label[val_wnids[k].wnid]]
                            /\ X_val' = [k \in 1..Len(paths) |-> Stored(imread(fs, paths[k]).img)]
                            /\ pc' = "test"
                            /\ UNCHANGED <<err, wnids, wnid_to_label, label_to_wnid,
                                           class_names, train_wnids, i, X_train, y_train,
                                           X_test, test_image_names, mean_image, result>>
    /\ UNCHANGED <<fs, args, callNo, first>>

\* mutant: the listing comes back in another order on a later call
listdir_Unstable(d) ==
    IF callNo = 1 THEN d.test ELSE [k \in 1..Len(d.test) |-> d.test[Len(d.test) + 1 - k]]

\* line 121: os.listdir(test/images)
listdir(d) == d.test

\* lines 115-130
LoadTest ==
    /\ pc = "test"
    /\ IF args.is_training
       THEN /\ X_test' = None
            /\ test_image_names' = None
            /\ pc' = "mean"
            /\ UNCHANGED <<err, wnids, wnid_to_label, label_to_wnid, class_names,
                           train_wnids, i, X_train, y_train, X_val, y_val,
                           mean_image, result, reads>>
       ELSE IF ~Exists(fs, TestDir)
       THEN /\ reads' = reads \cup {TestDir}
            /\ Raise("FileNotFoundError")
       ELSE LET img_files == listdir(fs)
                paths == [k \in 1..Len(img_files) |-> TestImg(Name(img_files[k]))]
                bad == FirstBad(fs, paths)
            IN /\ reads' = reads \cup {TestDir} \cup Opened(paths, bad)
               /\ IF bad # 0 THEN Raise(imread(fs, paths[bad]).err)
                  ELSE /\ X_test' = [k \in 1..Len(paths) |-> Stored(imread(fs, paths[k]).img)]
                       /\ test_image_names' = paths
                       /\ pc' = "mean"
                       /\ UNCHANGED <<err, wnids, wnid_to_label, label_to_wnid,
                                      class_names, train_wnids, i, X_train, y_train,
                                      X_val, y_val, mean_image, result>>
    /\ UNCHANGED <<fs, args, callNo, first>>

\* lines 132-139
SubtractMean ==
    /\ pc = "mean"
    /\ IF args.subtract_mean
       THEN /\ mean_image' = Mean(X_train)
            /\ IF args.is_training
               THEN /\ X_train' = Subtract(X_train, Mean(X_train))
                    /\ X_val' = Subtract(X_val, Mean(X_train))
                    /\ UNCHANGED X_test
               ELSE /\ X_test' = Subtract(X_test, Mean(X_train))
                    /\ UNCHANGED <<X_train, X_val>>
       ELSE /\ mean_image' = None
            /\ UNCHANGED <<X_train, X_val, X_test>>
    /\ pc' = "return"
    /\ UNCHANGED <<fs, args, err, wnids, wnid_to_label, label_to_wnid, class_names,
                   train_wnids, i, y_train, y_val, test_image_names, result, reads,
                   callNo, first>>

\* lines 141-155
Return ==
    /\ pc = "return"
    /\ X_train' = Discard(X_train, args)
    /\ y_train' = Discard(y_train, args)
    /\ result' = [class_names |-> class_names,
                  X_train |-> X_train',
                  y_train |-> y_train',
                  X_val |-> X_val,
                  y_val |-> y_val,
                  X_test |-> X_test,
                  mean_image |-> mean_image,
                  label_to_wnid |-> label_to_wnid,
                  test_image_names |-> test_image_names]
    /\ pc' = "done"
    /\ UNCHANGED <<fs, args, err, wnids, wnid_to_label, label_to_wnid, class_names,
                   train_wnids, i, X_val, y_val, X_test, test_image_names, mean_image,
                   reads, callNo, first>>

\* the caller keeps what the first call gave and calls again, same arguments
CallAgain ==
    /\ pc \in {"done", "error"}
    /\ callNo = 1
    /\ callNo' = 2
    /\ first' = [pc |-> pc, err |-> err, result |-> result]
    /\ wnids' = None /\ wnid_to_label' = None /\ label_to_wnid' = None
    /\ class_names' = None /\ train_wnids' = None /\ i' = 0
    /\ X_train' = None /\ y_train' = None /\ X_val' = None /\ y_val' = None
    /\ X_test' = None /\ test_image_names' = None /\ mean_image' = None
    /\ result' = None /\ reads' = {} /\ pc' = "wnids" /\ err' = "none"
    /\ UNCHANGED <<fs, args>>

Next == \/ LoadWnids
        \/ LoadWords
        \/ TrainClass
        \/ ConcatTrain
        \/ LoadVal
        \/ LoadTest
        \/ SubtractMean
        \/ Return

\* one call on a sound directory
Spec == Init /\ [][Next]_vars

\* one call on a directory that may have a fault
SpecFaults == InitFaults /\ [][Next]_vars

NextTwice == Next \/ CallAgain

\* two calls in a row
SpecTwice == Init /\ [][NextTwice]_vars

\* ------------------------------------------------- what the claims speak of
K == Len(fs.wnids)

\* number of lines of the boxes manifest of the class on line k of wnids.txt
N(k) == fs.nimg[fs.wnids[k]]

Distinct(q) == \A a, b \in 1..Len(q) : q[a] = q[b] => a = b

Count(y, l) == Cardinality({p \in 1..Len(y) : y[p] = l})

RECURSIVE SumN(_)
\* N(1) + ... + N(n)
SumN(n) == IF n = 0 THEN 0 ELSE SumN(n - 1) + N(n)

\* the decoded pixels of an image file as a 3-channel float element
Pixels(p) ==
    LET b == Content(p).px
    IN [num |-> IF Len(b) = 1 THEN <<b[1], b[1], b[1]>> ELSE b, den |-> 1]

\* the images the boxes manifest of line k's class lists, in line order,
\* each with the identifier of that class
ClassBlock(k) ==
    [j \in 1..N(k) |->
        [wnid |-> fs.wnids[k],
         px |-> Pixels(TrainImg(fs.wnids[k], Name(BoxesLines(fs, fs.wnids[k])[j].name)))]]

RECURSIVE BlocksUpTo(_)
\* the blocks of the classes on lines 1..n of wnids.txt, one after another
BlocksUpTo(n) == IF n = 0 THEN <<>> ELSE BlocksUpTo(n - 1) \o ClassBlock(n)

\* how many classes of wnids.txt the call loads training images of
NLoaded == IF args.debug
           THEN (IF args.debug_nclass < K THEN args.debug_nclass ELSE K)
           ELSE K

\* the un-subtracted training block of the call
RawTrain == [p \in 1..Len(BlocksUpTo(NLoaded)) |-> BlocksUpTo(NLoaded)[p].px]

RawVal == [k \in 1..Len(fs.val) |-> Pixels(ValImg(Name(ValLines(fs)[k].name)))]

RawTest == [k \in 1..Len(fs.test) |-> Pixels(TestImg(Name(fs.test[k])))]

RECURSIVE ChanSum(_, _, _)
ChanSum(X, c, n) == IF n = 0 THEN 0 ELSE ChanSum(X, c, n - 1) + X[n].num[c]

\* the element-wise mean over the first axis of a block, as sum / count
MeanOf(X) == [num |-> <<ChanSum(X, 1, Len(X)), ChanSum(X, 2, Len(X)), ChanSum(X, 3, Len(X))>>,
              den |-> Len(X)]

\* x - s/n = (x*n - s) / n for every channel of every image of X
Minus(X, m) ==
    [p \in 1..Len(X) |->
        [num |-> <<X[p].num[1] * m.den - m.num[1], X[p].num[2] * m.den - m.num[2],
                   X[p].num[3] * m.den - m.num[3]>>,
         den |-> m.den]]

\* a block as the call returns it
Returned(X) == IF args.subtract_mean THEN Minus(X, MeanOf(RawTrain)) ELSE X

Done == pc = "done"

\* ------------------------------------------------------------------ C1
\* C1 as stated: a training call without debug that returns gives a y_train
\* of length N(1)+...+N(K) in which exactly N(k) entries equal the 0-based
\* index of line k, for every line k of wnids.txt.
C1_AsStated ==
    (Done /\ args.is_training /\ ~args.debug) =>
        /\ Len(result.y_train) = SumN(K)
        /\ \A k \in 1..K : Count(result.y_train, k - 1) = N(k)

\* C1 amended: the same, for a wnids.txt whose identifiers are pairwise
\* distinct.
C1_LabelCounts ==
    (Done /\ args.is_training /\ ~args.debug /\ Distinct(fs.wnids)) =>
        /\ Len(result.y_train) = SumN(K)
        /\ \A k \in 1..K : Count(result.y_train, k - 1) = N(k)

C1_Witness ==
    /\ Done /\ args.is_training /\ ~args.debug /\ Distinct(fs.wnids)
    /\ K = 2 /\ N(1) = 2 /\ N(2) = 1
    /\ result.y_train = <<0, 0, 1>>

\* ------------------------------------------------------------------ C2
\* C2 as stated: for every line i (0-based) of wnids.txt, label_to_wnid has
\* key i, label_to_wnid[i] is the identifier on line i, and the label given
\* to that identifier's images is i.
C2_AsStated ==
    Done => \A l \in 0..(K - 1) :
                /\ l \in DOMAIN result.label_to_wnid
                /\ result.label_to_wnid[l] = fs.wnids[l + 1]
                /\ wnid_to_label[fs.wnids[l + 1]] = l

\* C2 amended: the same, for a wnids.txt whose identifiers are pairwise
\* distinct.
C2_IndexOrder ==
    (Done /\ Distinct(fs.wnids)) =>
        \A l \in 0..(K - 1) :
            /\ l \in DOMAIN result.label_to_wnid
            /\ result.label_to_wnid[l] = fs.wnids[l + 1]
            /\ wnid_to_label[fs.wnids[l + 1]] = l

C2_Witness ==
    /\ Done /\ K = 2 /\ Distinct(fs.wnids)
    /\ result.label_to_wnid = [l \in {0, 1} |-> fs.wnids[l + 1]]

\* ------------------------------------------------------------------ C3
\* C3: a training call with debug on and 1 <= debug_nclass = n <= K returns
\* as training block the images of the first n lines of wnids.txt and no
\* others, and as many images and labels as those n manifests list.
C3_DebugFirstN ==
    (Done /\ args.is_training /\ args.debug
          /\ 1 <= args.debug_nclass /\ args.debug_nclass <= K) =>
        LET first_n == BlocksUpTo(args.debug_nclass)
        IN /\ result.X_train = Returned([p \in 1..Len(first_n) |-> first_n[p].px])
           /\ Len(result.X_train) = SumN(args.debug_nclass)
           /\ Len(result.y_train) = SumN(args.debug_nclass)

C3_Witness ==
    /\ Done /\ args.is_training /\ args.debug /\ args.debug_nclass = 1
    /\ K = 2 /\ Distinct(fs.wnids) /\ N(1) = 2 /\ N(2) = 2
    /\ Len(result.X_train) = 2

\* ------------------------------------------------------------------ C4
\* C4: with subtract_mean, in either mode, the returned mean_image is the
\* element-wise mean of the un-subtracted training block the call loaded,
\* and X_train and X_val (training) or X_test (testing) are the decoded
\* pixels minus that mean.
C4_MeanSubtracted ==
    (Done /\ args.subtract_mean) =>
        /\ result.mean_image = MeanOf(RawTrain)
        /\ args.is_training =>
              /\ result.X_train = Minus(RawTrain, MeanOf(RawTrain))
              /\ result.X_val = Minus(RawVal, MeanOf(RawTrain))
        /\ ~args.is_training => result.X_test = Minus(RawTest, MeanOf(RawTrain))

C4_Witness ==
    /\ Done /\ args.subtract_mean /\ ~args.is_training
    /\ Len(RawTrain) = 3 /\ Len(result.X_test) = 2
    /\ result.mean_image.den = 3
    /\ result.X_train = None

\* ------------------------------------------------------------------ C5
\* C5: a testing call returns no X_train, y_train, X_val, y_val, and
\* test_image_names has one entry per image of X_test, entry k being the
\* existing path under test/images that X_test[k] was decoded from.
C5_TestMode ==
    (Done /\ ~args.is_training) =>
        /\ result.X_train = None /\ result.y_train = None
        /\ result.X_val = None /\ result.y_val = None
        /\ Len(result.test_image_names) = Len(result.X_test)
        /\ \A k \in 1..Len(result.X_test) :
              LET name == result.test_image_names[k]
              IN /\ name.kind = "test/images"
                 /\ name.name.n \in Range(fs.test) /\ ~name.name.nl
                 /\ result.X_test[k] = Returned(<<Pixels(name)>>)[1]

C5_Witness ==
    /\ Done /\ ~args.is_training /\ args.debug
    /\ fs.test = <<2, 1>> /\ Len(result.X_test) = 2
    /\ result.test_image_names = <<TestImg(Name(2)), TestImg(Name(1))>>

\* ------------------------------------------------------------------ C6
\* C6 as stated: a testing call without subtract_mean opens no file under
\* train/ (no boxes manifest, no training image).
C6_AsStated ==
    (~args.is_training /\ ~args.subtract_mean) =>
        \A p \in reads : p.kind \notin {"boxes.txt", "train/images"}

\* ------------------------------------------------------------------ C7
\* a fault of the directory in a file or a line that the call has to read
NeededFault ==
    LET f == fs.fault
        loaded == {fs.wnids[k] : k \in 1..NLoaded}
    IN \/ f \in {Fault("missing", WnidsTxt), Fault("missing", WordsTxt), Fault("notab", WordsTxt)}
       \/ f.how = "nokey" /\ f.at.w \in Range(fs.wnids)
       \/ f.at.kind \in {"boxes.txt", "train/images"} /\ f.at.w \in loaded
       \/ f.at.kind \in {"val_annotations.txt", "val/images"} /\ args.is_training
       \/ f.at.kind = "test/images" /\ ~args.is_training

C9_Aligned ==
    (Done /\ args.is_training) =>
        LET blocks == BlocksUpTo(NLoaded)
        IN /\ result.X_train = Returned([p \in 1..Len(blocks) |-> blocks[p].px])
           /\ Len(result.y_train) = Len(blocks)
           /\ \A p \in 1..Len(blocks) :
                 /\ result.y_train[p] \in DOMAIN result.label_to_wnid
                 /\ result.label_to_wnid[result.y_train[p]] = blocks[p].wnid
           /\ result.X_val = Returned(RawVal)
           /\ Len(result.y_val) = Len(fs.val)
           /\ \A k \in 1..Len(fs.val) :
                 /\ result.y_val[k] \in DOMAIN result.label_to_wnid
                 /\ result.label_to_wnid[result.y_val[k]] = fs.val[k]

C9_Witness ==
    /\ Done /\ args.is_training /\ ~args.debug
    /\ fs.wnids = <<"n02", "n01">> /\ N(1) = 2 /\ N(2) = 1
    /\ fs.val = <<"n01", "n02">>
    /\ result.y_train = <<0, 0, 1>> /\ result.y_val = <<1, 0>>

\* ------------------------------------------------------------------ C10
\* C10: with debug on and debug_nclass = n < K, class_names and
\* label_to_wnid still cover every line of wnids.txt, and a training call
\* still returns one validation label per line of val_annotations.txt, each
\* the index in the whole of wnids.txt of the identifier on its line.
C10_DebugTrainOnly ==
    (Done /\ args.debug /\ args.debug_nclass < K) =>
        /\ result.class_names = [k \in 1..K |-> Words(fs.wnids[k])]
        /\ {result.label_to_wnid[l] : l \in DOMAIN result.label_to_wnid} = Range(fs.wnids)
        /\ args.is_training =>
              /\ Len(result.y_val) = Len(fs.val)
              /\ Len(result.X_val) = Len(fs.val)
              /\ \A k \in 1..Len(fs.val) :
                    /\ result.y_val[k] \in 0..(K - 1)
                    /\ fs.wnids[result.y_val[k] + 1] = fs.val[k]

C10_Witness ==
    /\ Done /\ args.debug /\ args.is_training /\ args.debug_nclass = 1 /\ K = 2
    /\ Len(result.y_train) >= 1
    /\ \E k \in 1..Len(result.y_val) :
          /\ result.y_val[k] >= args.debug_nclass
          /\ result.y_val[k] \notin Range(result.y_train)
====
